---------------------------- MODULE Spec2Model ----------------------------
(***************************************************************************)
(* Model of src/app/api/scrape-playlist/route.ts: the POST handler that    *)
(* validates a playlist URL, opens a per-request dataset, crawls the       *)
(* playlist page (wait for selector, scroll until the height is stable,    *)
(* extract one record per item container, normalise the view counts,      *)
(* push the batch), reads the batch back, builds the response and drops    *)
(* the dataset.                                                            *)
(*                                                                         *)
(* Text is a sequence of one-character strings, so that trimming, the      *)
(* regular expression, parseInt and parseFloat are computed character by   *)
(* character as the JavaScript does.                                       *)
(***************************************************************************)
EXTENDS Integers, Sequences, FiniteSets, TLC

VARIABLES
    \* ---- the view-count computation on one views text (lines 73-89)
    viewsText,  \* el.querySelector("#video-info span")?.textContent
    shape,      \* how the views text was put together: number, suffix, rest
    views,      \* the computed `views`
    npc,        \* "off", "text" (input chosen) or "done" (views computed)
    \* ---- POST, one execution per request (lines 17-146)
    pc,         \* where each execution of POST stands
    body,       \* the playlistUrl of each request body
    resp,       \* what POST ended with: a response or an unhandled exception
    opens,      \* number of datasets Dataset.open returned to the execution
    drops,      \* number of dataset.drop() invocations of the execution
    dsItems,    \* the items of the execution's dataset `playlist-${uuid}`
    \* ---- the crawling engine: the process-wide default request queue
    rq,         \* request of each execution: absent, pending, inprogress, handled
    rqRetry,    \* retryCount of the request
    failed,     \* failedRequestHandler was called for the request
    \* ---- the crawler each execution constructs, and its requestHandler
    cstate,     \* off, idle, nav, wait, scroll, extract, push
    creq,       \* the execution whose request the crawler holds (0: none)
    oldHeight,  \* `oldHeight` of the scroll loop
    scrollHeight, \* document.body.scrollHeight of the crawler's page
    videos,     \* `videos` of the requestHandler
    playlistData, \* `playlistData` of POST
    extracted   \* the batches the execution's requestHandler has extracted

nvars == <<viewsText, shape, views, npc>>
pvars == <<pc, body, resp, opens, drops, dsItems, playlistData>>
qvars == <<rq, rqRetry, failed>>
cvars == <<cstate, creq, oldHeight, scrollHeight, videos, extracted>>
vars == <<nvars, pvars, qvars, cvars>>

(***************************************************************************)
(* Bounds of the model.                                                    *)
(***************************************************************************)
MaxNumLen == 6      \* longest enumerated [\d,.] run of a views text
NumExecs == 2       \* executions of POST in the process
MaxRetries == 1     \* the engine's retries of a failed request
MaxHeight == 3      \* cap on the height of a page that grows without end

(***************************************************************************)
(* Numbers.  A JavaScript number is NaN or the exact decimal m * 10^e in   *)
(* canonical form (m not a multiple of 10, or m = 0 and e = 0); the value  *)
(* is an integer exactly when e >= 0.  The products of parseFloat are      *)
(* computed exactly; IEEE rounding is not modelled.                        *)
(***************************************************************************)
NaN == [nan |-> TRUE, m |-> 0, e |-> 0]

RECURSIVE Canon(_, _)
Canon(m, e) ==
    IF m = 0 THEN [nan |-> FALSE, m |-> 0, e |-> 0]
    ELSE IF m % 10 = 0 THEN Canon(m \div 10, e + 1)
    ELSE [nan |-> FALSE, m |-> m, e |-> e]

Num(n) == Canon(n, 0)

Times10(v, k) == IF v.nan THEN NaN ELSE Canon(v.m, v.e + k)

IsInteger(v) == ~v.nan /\ v.e >= 0

(***************************************************************************)
(* Characters and strings.                                                 *)
(***************************************************************************)
Digits == {"0", "1", "2", "3", "4", "5", "6", "7", "8", "9"}

DigitVal(c) ==
    CASE c = "0" -> 0 [] c = "1" -> 1 [] c = "2" -> 2 [] c = "3" -> 3
      [] c = "4" -> 4 [] c = "5" -> 5 [] c = "6" -> 6 [] c = "7" -> 7
      [] c = "8" -> 8 [] c = "9" -> 9

IsDigit(c) == c \in Digits
IsNumChar(c) == IsDigit(c) \/ c = "," \/ c = "."
IsSpace(c) == c = " "

\* String.prototype.toUpperCase on the letters the model uses
UpperChar(c) ==
    CASE c = "k" -> "K" [] c = "m" -> "M" [] c = "b" -> "B"
      [] c = "v" -> "V" [] c = "i" -> "I" [] c = "e" -> "E"
      [] c = "w" -> "W" [] c = "s" -> "S" [] c = "r" -> "R"
      [] c = "n" -> "N" [] c = "o" -> "O" [] c = "d" -> "D"
      [] c = "a" -> "A" [] c = "t" -> "T"
      [] OTHER -> c

toUpperCase(s) == [i \in 1..Len(s) |-> UpperChar(s[i])]

\* the i flag: [KMB] also matches k, m, b
IsMagnitude(c) == UpperChar(c) \in {"K", "M", "B"}

RECURSIVE trim(_)
trim(s) ==
    IF s = <<>> THEN s
    ELSE IF IsSpace(Head(s)) THEN trim(Tail(s))
    ELSE IF IsSpace(s[Len(s)]) THEN trim(SubSeq(s, 1, Len(s) - 1))
    ELSE s

\* .replace(/,/g, "")
RECURSIVE removeCommas(_)
removeCommas(s) ==
    IF s = <<>> THEN <<>>
    ELSE IF Head(s) = "," THEN removeCommas(Tail(s))
    ELSE <<Head(s)>> \o removeCommas(Tail(s))

endsWith(s, c) == s # <<>> /\ s[Len(s)] = c

\* length of the longest run of [\d,.] starting at position i
RECURSIVE NumRun(_, _)
NumRun(s, i) ==
    IF i <= Len(s) /\ IsNumChar(s[i]) THEN 1 + NumRun(s, i + 1) ELSE 0

\* length of the longest run of digits starting at position i
RECURSIVE DigitRun(_, _)
DigitRun(s, i) ==
    IF i <= Len(s) /\ IsDigit(s[i]) THEN 1 + DigitRun(s, i + 1) ELSE 0

\* length of the longest run of \s starting at position i
RECURSIVE SpaceRun(_, _)
SpaceRun(s, i) ==
    IF i <= Len(s) /\ IsSpace(s[i]) THEN 1 + SpaceRun(s, i + 1) ELSE 0

\* the value of a string of digits
RECURSIVE DigitsToNat(_)
DigitsToNat(s) ==
    IF s = <<>> THEN 0
    ELSE 10 * DigitsToNat(SubSeq(s, 1, Len(s) - 1)) + DigitVal(s[Len(s)])

(***************************************************************************)
(* viewsText.match(/^([\d,.]+[KMB]?)\s*views?$/i): capture group 1, or     *)
(* NoMatch.  The classes [\d,.], [KMB], \s and the letter v are disjoint,  *)
(* so the greedy match is the only one.                                    *)
(***************************************************************************)
NoMatch == <<"null">>

viewsMatch(s) ==
    LET n == NumRun(s, 1)
        k == IF n + 1 <= Len(s) /\ IsMagnitude(s[n + 1]) THEN 1 ELSE 0
        w == SpaceRun(s, n + k + 1)
        word == toUpperCase(SubSeq(s, n + k + w + 1, Len(s)))
    IN  IF n >= 1 /\ word \in {<<"V", "I", "E", "W">>, <<"V", "I", "E", "W", "S">>}
        THEN SubSeq(s, 1, n + k)
        ELSE NoMatch

(***************************************************************************)
(* parseInt(str): the leading digits, NaN when there are none.             *)
(***************************************************************************)
parseInt(str) ==
    LET d == DigitRun(str, 1)
    IN  IF d = 0 THEN NaN ELSE Num(DigitsToNat(SubSeq(str, 1, d)))

(***************************************************************************)
(* parseFloat(str): the longest prefix that is a decimal literal           *)
(* (digits, then optionally "." and digits; at least one digit), NaN when  *)
(* there is none.                                                          *)
(***************************************************************************)
parseFloat(str) ==
    LET d1 == DigitRun(str, 1)
        dot == d1 + 1 <= Len(str) /\ str[d1 + 1] = "."
        d2 == IF dot THEN DigitRun(str, d1 + 2) ELSE 0
        int == SubSeq(str, 1, d1)
        frac == SubSeq(str, d1 + 2, d1 + 1 + d2)
    IN  IF d1 + d2 = 0 THEN NaN
        ELSE Canon(DigitsToNat(int \o frac), 0 - d2)

(***************************************************************************)
(* The view count of one item container (route.ts lines 73-89).            *)
(***************************************************************************)
ViewsOfMatch(match) ==
    IF match = NoMatch THEN Num(0)
    ELSE LET viewString == removeCommas(toUpperCase(match))
         IN  IF endsWith(viewString, "K") THEN Times10(parseFloat(viewString), 3)
             ELSE IF endsWith(viewString, "M") THEN Times10(parseFloat(viewString), 6)
             ELSE IF endsWith(viewString, "B") THEN Times10(parseFloat(viewString), 9)
             ELSE parseInt(viewString)

Normalize(textContent) == ViewsOfMatch(viewsMatch(trim(textContent)))


(***************************************************************************)
(* Request bodies.  A playlistUrl is undefined (or any other falsy value), *)
(* or a string: one that new URL() rejects, or an absolute URL with a      *)
(* query, a sequence of <<name, value>> pairs.                             *)
(***************************************************************************)
Execs == 1..NumExecs

Null == "null"

Url(query, page) == [present |-> TRUE, absolute |-> TRUE, query |-> query, page |-> page]

MissingUrl == [present |-> FALSE, absolute |-> FALSE, query |-> <<>>, page |-> "none"]
NotAUrl == [present |-> TRUE, absolute |-> FALSE, query |-> <<>>, page |-> "none"]
WatchUrl == Url(<<<<"v", "x">>>>, "none")              \* https://example.com/watch?v=x
EmptyListUrl == Url(<<<<"list", "">>>>, "none")        \* ...playlist?list=
PlaylistA == Url(<<<<"list", "PLA">>>>, "A")
PlaylistB == Url(<<<<"v", "x">>, <<"list", "PLB">>>>, "B")
PlaylistE == Url(<<<<"list", "PLE">>>>, "E")

Bodies == {MissingUrl, NotAUrl, WatchUrl, EmptyListUrl, PlaylistA, PlaylistB, PlaylistE}

\* URLSearchParams.get: the first value of the name, or null
RECURSIVE searchParamsGet(_, _)
searchParamsGet(query, name) ==
    IF query = <<>> THEN Null
    ELSE IF Head(query)[1] = name THEN Head(query)[2]
    ELSE searchParamsGet(Tail(query), name)

(***************************************************************************)
(* Pages.  An item container has, or lacks, a #video-title, a              *)
(* "#video-info span" and an img.  Page A and page B hold a fixed playlist *)
(* that lazy loading reveals one container at a time; page E grows at      *)
(* every scroll.                                                           *)
(***************************************************************************)
Container(hasTitle, title, hasInfo, info, hasImg, src) ==
    [hasTitle |-> hasTitle, title |-> title, hasInfo |-> hasInfo, info |-> info,
     hasImg |-> hasImg, src |-> src]

ItemA1 == Container(TRUE, <<" ", "A", " ">>, TRUE,
                    <<"1", ",", "0", "0", "0", " ", "v", "i", "e", "w", "s">>,
                    TRUE, "a1.jpg")
ItemA2 == Container(FALSE, <<>>, TRUE, <<"5", "0", "0", "K", " ", "v", "i", "e", "w", "s">>,
                    FALSE, "")
ItemB1 == Container(TRUE, <<"B">>, FALSE, <<>>, TRUE, "b1.jpg")
ItemB2 == Container(TRUE, <<"C">>, TRUE, <<"1", ".", "5", "M", " ", "v", "i", "e", "w", "s">>,
                    TRUE, "b2.jpg")
ItemE == Container(TRUE, <<"E">>, TRUE, <<"1", "0", " ", "v", "i", "e", "w", "s">>,
                   TRUE, "e.jpg")

Endless(page) == page = "E"

Items(page) ==
    CASE page = "A" -> <<ItemA1, ItemA2>>
      [] page = "B" -> <<ItemB1, ItemB2>>
      [] OTHER -> <<>>

\* the item containers in the DOM of a page of the given height
Elements(page, height) ==
    IF Endless(page) THEN [i \in 1..height |-> ItemE]
    ELSE SubSeq(Items(page), 1, height)

\* whether scrolling to the bottom can still load more
CanGrow(page, height) == Endless(page) \/ height < Len(Items(page))

(***************************************************************************)
(* The callback of page.$$eval (lines 69-94).                              *)
(***************************************************************************)
ExtractRecord(el) ==
    [title |-> IF el.hasTitle THEN trim(el.title) ELSE <<>>,
     views |-> Normalize(IF el.hasInfo THEN el.info ELSE <<>>),
     thumbnail |-> IF el.hasImg THEN el.src ELSE ""]

ExtractAll(elements) == [i \in 1..Len(elements) |-> ExtractRecord(elements[i])]

(***************************************************************************)
(* The scroll loop's exit test (line 62).                                  *)
(***************************************************************************)
\* a loop that also stops once the page has not shrunk
ScrollStableOrGrown(newHeight, old) == newHeight >= old

ScrollStable(newHeight, old) == newHeight = old

(***************************************************************************)
(* The response (lines 116-129).                                           *)
(***************************************************************************)
FirstVideos(items) == IF items = <<>> THEN <<>> ELSE items[1]

\* labels taken from the 0-based index
GraphDataZeroBased(vs) ==
    [index \in 1..Len(vs) |->
        [name |-> "Video " \o ToString(index - 1), views |-> vs[index].views]]

GraphData(vs) ==
    [index \in 1..Len(vs) |-> [name |-> "Video " \o ToString(index), views |-> vs[index].views]]

NoResp == [kind |-> "none", status |-> 0, error |-> "", videoList |-> <<>>, graphData |-> <<>>]

ErrorResp(status, error) ==
    [kind |-> "response", status |-> status, error |-> error,
     videoList |-> <<>>, graphData |-> <<>>]

PlaylistData(vs) ==
    [kind |-> "response", status |-> 200, error |-> "",
     videoList |-> vs, graphData |-> GraphData(vs)]

\* POST rejected: the exception reaches the framework
Unhandled(error) ==
    [kind |-> "exception", status |-> 0, error |-> error,
     videoList |-> <<>>, graphData |-> <<>>]


(***************************************************************************)
(* POST, lines 19-37: the body is read and validated.                      *)
(***************************************************************************)
Falsy(v) == v = Null \/ v = ""

Validate(e) ==
    /\ pc[e] = "request"
    /\ LET playlistUrl == body[e]
           playlistId == searchParamsGet(playlistUrl.query, "list")
       IN  IF ~playlistUrl.present
           THEN /\ resp' = [resp EXCEPT ![e] = ErrorResp(400, "Playlist URL is required")]
                /\ pc' = [pc EXCEPT ![e] = "done"]
           ELSE IF ~playlistUrl.absolute
           THEN \* new URL(playlistUrl) throws outside any try
                /\ resp' = [resp EXCEPT ![e] = Unhandled("TypeError: Invalid URL")]
                /\ pc' = [pc EXCEPT ![e] = "done"]
           ELSE IF Falsy(playlistId)
           THEN /\ resp' = [resp EXCEPT ![e] = ErrorResp(400, "Invalid playlist URL")]
                /\ pc' = [pc EXCEPT ![e] = "done"]
           ELSE /\ pc' = [pc EXCEPT ![e] = "open"]
                /\ UNCHANGED resp
    /\ UNCHANGED <<nvars, body, opens, drops, dsItems, playlistData, qvars, cvars>>

(***************************************************************************)
(* Lines 40-107: Dataset.open resolves or rejects, then the crawler is     *)
(* constructed; both stand before the try.                                 *)
(***************************************************************************)
DatasetOpen(e) ==
    /\ pc[e] = "open"
    /\ \/ /\ opens' = [opens EXCEPT ![e] = @ + 1]
          /\ pc' = [pc EXCEPT ![e] = "run"]
          /\ UNCHANGED resp
       \/ \* Dataset.open rejects
          /\ resp' = [resp EXCEPT ![e] = Unhandled("Dataset.open failed")]
          /\ pc' = [pc EXCEPT ![e] = "done"]
          /\ UNCHANGED opens
       \/ \* the dataset is open and new PlaywrightCrawler throws
          /\ opens' = [opens EXCEPT ![e] = @ + 1]
          /\ resp' = [resp EXCEPT ![e] = Unhandled("PlaywrightCrawler failed")]
          /\ pc' = [pc EXCEPT ![e] = "done"]
    /\ UNCHANGED <<nvars, body, drops, dsItems, playlistData, qvars, cvars>>

(***************************************************************************)
(* Lines 109-113: crawler.run adds the request, with its unique key, to    *)
(* the default request queue of the process and starts the crawler; or it  *)
(* rejects.                                                                *)
(***************************************************************************)
CrawlerRun(e) ==
    /\ pc[e] = "run"
    /\ \/ /\ rq' = [rq EXCEPT ![e] = "pending"]
          /\ cstate' = [cstate EXCEPT ![e] = "idle"]
          /\ pc' = [pc EXCEPT ![e] = "crawl"]
       \/ /\ pc' = [pc EXCEPT ![e] = "catch"]
          /\ UNCHANGED <<rq, cstate>>
    /\ UNCHANGED <<nvars, body, resp, opens, drops, dsItems, playlistData,
                   rqRetry, failed,
                   creq, oldHeight, scrollHeight, videos, extracted>>

(***************************************************************************)
(* The engine: an idle running crawler takes a pending request of the      *)
(* queue and navigates to its url.                                         *)
(***************************************************************************)
TakeRequest(c, o) ==
    /\ pc[c] = "crawl"
    /\ cstate[c] = "idle"
    /\ rq[o] = "pending"
    /\ rq' = [rq EXCEPT ![o] = "inprogress"]
    /\ creq' = [creq EXCEPT ![c] = o]
    /\ cstate' = [cstate EXCEPT ![c] = "nav"]
    /\ UNCHANGED <<nvars, pvars, rqRetry, failed, oldHeight, scrollHeight, videos, extracted>>

Navigate(c) ==
    /\ cstate[c] = "nav"
    /\ cstate' = [cstate EXCEPT ![c] = "wait"]
    /\ UNCHANGED <<nvars, pvars, qvars, creq, oldHeight, scrollHeight, videos, extracted>>

(***************************************************************************)
(* requestHandler, lines 52-54: the first item container has appeared.     *)
(***************************************************************************)
WaitForSelector(c) ==
    /\ cstate[c] = "wait"
    /\ cstate' = [cstate EXCEPT ![c] = "scroll"]
    /\ scrollHeight' = [scrollHeight EXCEPT ![c] = 1]
    /\ UNCHANGED <<nvars, pvars, qvars, creq, oldHeight, videos, extracted>>

(***************************************************************************)
(* requestHandler, lines 58-63: one iteration of the scroll loop.  During  *)
(* the pause the page grows by `grow`: a fixed playlist may load its next  *)
(* container or not, an endless page always does.                          *)
(***************************************************************************)
Growth(page, height) ==
    IF Endless(page) THEN {1}
    ELSE IF CanGrow(page, height) THEN {0, 1}
    ELSE {0}

ScrollIteration(c) ==
    /\ cstate[c] = "scroll"
    /\ LET page == body[creq[c]].page
       IN  /\ Endless(page) => scrollHeight[c] < MaxHeight
           /\ \E grow \in Growth(page, scrollHeight[c]) :
                /\ oldHeight' = [oldHeight EXCEPT ![c] = scrollHeight[c]]
                /\ scrollHeight' = [scrollHeight EXCEPT ![c] = @ + grow]
                /\ cstate' = [cstate EXCEPT ![c] =
                       IF ScrollStable(scrollHeight[c] + grow, scrollHeight[c])
                       THEN "extract" ELSE "scroll"]
    /\ UNCHANGED <<nvars, pvars, qvars, creq, videos, extracted>>

(***************************************************************************)
(* requestHandler, lines 67-95: one record per item container.             *)
(***************************************************************************)
Extract(c) ==
    /\ cstate[c] = "extract"
    /\ LET batch == ExtractAll(Elements(body[creq[c]].page, scrollHeight[c]))
       IN  /\ videos' = [videos EXCEPT ![c] = batch]
           /\ extracted' = [extracted EXCEPT ![c] = @ \cup {batch}]
    /\ cstate' = [cstate EXCEPT ![c] = "push"]
    /\ UNCHANGED <<nvars, pvars, qvars, creq, oldHeight, scrollHeight>>

(***************************************************************************)
(* requestHandler, line 100: the batch goes to the dataset of the          *)
(* execution that constructed the crawler; the request is handled.         *)
(***************************************************************************)
PushData(c) ==
    /\ cstate[c] = "push"
    /\ dsItems' = [dsItems EXCEPT ![c] = Append(@, videos[c])]
    /\ rq' = [rq EXCEPT ![creq[c]] = "handled"]
    /\ cstate' = [cstate EXCEPT ![c] = "idle"]
    /\ creq' = [creq EXCEPT ![c] = 0]
    /\ oldHeight' = [oldHeight EXCEPT ![c] = 0]
    /\ scrollHeight' = [scrollHeight EXCEPT ![c] = 0]
    /\ videos' = [videos EXCEPT ![c] = <<>>]
    /\ UNCHANGED <<nvars, pc, body, resp, opens, drops, playlistData,
                   rqRetry, failed, extracted>>

(***************************************************************************)
(* Navigation or an await of the requestHandler fails.  The engine puts    *)
(* the request back for a retry, or, the retries used up, calls            *)
(* failedRequestHandler (lines 104-106) and marks the request handled.     *)
(***************************************************************************)
AttemptFails(c) ==
    /\ cstate[c] \in {"nav", "wait", "scroll", "extract", "push"}
    /\ LET o == creq[c]
       IN  IF rqRetry[o] < MaxRetries
           THEN /\ rqRetry' = [rqRetry EXCEPT ![o] = @ + 1]
                /\ rq' = [rq EXCEPT ![o] = "pending"]
                /\ UNCHANGED failed
           ELSE /\ rq' = [rq EXCEPT ![o] = "handled"]
                /\ failed' = [failed EXCEPT ![o] = TRUE]
                /\ UNCHANGED rqRetry
    /\ cstate' = [cstate EXCEPT ![c] = "idle"]
    /\ creq' = [creq EXCEPT ![c] = 0]
    /\ oldHeight' = [oldHeight EXCEPT ![c] = 0]
    /\ scrollHeight' = [scrollHeight EXCEPT ![c] = 0]
    /\ videos' = [videos EXCEPT ![c] = <<>>]
    /\ UNCHANGED <<nvars, pvars, extracted>>

(***************************************************************************)
(* crawler.run resolves once the queue holds no request to do: also when   *)
(* the request failed.                                                     *)
(***************************************************************************)
RunResolves(e) ==
    /\ pc[e] = "crawl"
    /\ cstate[e] = "idle"
    /\ \A o \in Execs : rq[o] \notin {"pending", "inprogress"}
    /\ cstate' = [cstate EXCEPT ![e] = "off"]
    /\ pc' = [pc EXCEPT ![e] = "getData"]
    /\ UNCHANGED <<nvars, body, resp, opens, drops, dsItems, playlistData, qvars,
                   creq, oldHeight, scrollHeight, videos, extracted>>

(***************************************************************************)
(* Lines 116-129: the dataset is read back and the response is built.      *)
(***************************************************************************)
GetData(e) ==
    /\ pc[e] = "getData"
    /\ \/ /\ playlistData' = [playlistData EXCEPT ![e] = PlaylistData(FirstVideos(dsItems[e]))]
          /\ pc' = [pc EXCEPT ![e] = "drop"]
       \/ \* dataset.getData rejects
          /\ pc' = [pc EXCEPT ![e] = "catch"]
          /\ UNCHANGED playlistData
    /\ UNCHANGED <<nvars, body, resp, opens, drops, dsItems, qvars, cvars>>

(***************************************************************************)
(* Lines 132-135: dataset.drop() in the try, then the response.            *)
(***************************************************************************)
DropAndRespond(e) ==
    /\ pc[e] = "drop"
    /\ drops' = [drops EXCEPT ![e] = @ + 1]
    /\ \/ /\ dsItems' = [dsItems EXCEPT ![e] = <<>>]
          /\ resp' = [resp EXCEPT ![e] = playlistData[e]]
          /\ pc' = [pc EXCEPT ![e] = "done"]
       \/ \* dataset.drop rejects
          /\ pc' = [pc EXCEPT ![e] = "catch"]
          /\ UNCHANGED <<dsItems, resp>>
    /\ UNCHANGED <<nvars, body, opens, playlistData, qvars, cvars>>

(***************************************************************************)
(* Lines 136-144: the catch drops the dataset and answers 500.             *)
(***************************************************************************)
CatchDrop(e) ==
    /\ pc[e] = "catch"
    /\ drops' = [drops EXCEPT ![e] = @ + 1]
    /\ \/ /\ dsItems' = [dsItems EXCEPT ![e] = <<>>]
          /\ resp' = [resp EXCEPT ![e] =
                 ErrorResp(500, "An error occurred while scraping the playlist")]
       \/ \* dataset.drop rejects in the catch
          /\ resp' = [resp EXCEPT ![e] = Unhandled("dataset.drop failed")]
          /\ UNCHANGED dsItems
    /\ pc' = [pc EXCEPT ![e] = "done"]
    /\ UNCHANGED <<nvars, body, opens, playlistData, qvars, cvars>>

(***************************************************************************)
(* The view-count computation on one views text.                           *)
(***************************************************************************)
NormalizeText ==
    /\ npc = "text"
    /\ views' = Normalize(viewsText)
    /\ npc' = "done"
    /\ UNCHANGED <<viewsText, shape, pvars, qvars, cvars>>

(***************************************************************************)
(* Specifications.                                                         *)
(***************************************************************************)
NoShape == [lead |-> <<>>, num |-> <<>>, suffix |-> <<>>, rest |-> <<>>]

NormOff ==
    /\ npc = "off"
    /\ viewsText = <<>>
    /\ shape = NoShape
    /\ views = Num(0)

PostInit(arrived) ==
    /\ pc = [e \in Execs |-> IF e \in arrived THEN "request" ELSE "absent"]
    /\ body \in [Execs -> Bodies]
    /\ \A e \in Execs \ arrived : body[e] = MissingUrl
    /\ resp = [e \in Execs |-> NoResp]
    /\ opens = [e \in Execs |-> 0]
    /\ drops = [e \in Execs |-> 0]
    /\ dsItems = [e \in Execs |-> <<>>]
    /\ playlistData = [e \in Execs |-> NoResp]
    /\ rq = [e \in Execs |-> "absent"]
    /\ rqRetry = [e \in Execs |-> 0]
    /\ failed = [e \in Execs |-> FALSE]
    /\ cstate = [e \in Execs |-> "off"]
    /\ creq = [e \in Execs |-> 0]
    /\ oldHeight = [e \in Execs |-> 0]
    /\ scrollHeight = [e \in Execs |-> 0]
    /\ videos = [e \in Execs |-> <<>>]
    /\ extracted = [e \in Execs |-> {}]

\* every execution's request has arrived; they interleave at their awaits
Init == NormOff /\ PostInit(Execs)

Next ==
    \/ \E e \in Execs : Validate(e)
    \/ \E e \in Execs : DatasetOpen(e)
    \/ \E e \in Execs : CrawlerRun(e)
    \/ \E c \in Execs, o \in Execs : TakeRequest(c, o)
    \/ \E c \in Execs : Navigate(c)
    \/ \E c \in Execs : WaitForSelector(c)
    \/ \E c \in Execs : ScrollIteration(c)
    \/ \E c \in Execs : Extract(c)
    \/ \E c \in Execs : PushData(c)
    \/ \E c \in Execs : AttemptFails(c)
    \/ \E e \in Execs : RunResolves(e)
    \/ \E e \in Execs : GetData(e)
    \/ \E e \in Execs : DropAndRespond(e)
    \/ \E e \in Execs : CatchDrop(e)

Spec == Init /\ [][Next]_vars


\* one execution alone in the process; the pause of the scroll loop ends
\* (a timer of the page), so an iteration that can run does run
InitSolo == NormOff /\ PostInit({1})

SoloSpec == InitSolo /\ [][Next]_vars

LiveSpec == InitSolo /\ [][Next]_vars /\ \A c \in Execs : WF_vars(ScrollIteration(c))

(***************************************************************************)
(* The views texts the computation is run on: every run of up to MaxNumLen *)
(* characters of [\d,.], with or without a magnitude letter, followed by   *)
(* one of a few endings; and the texts the specification names.            *)
(***************************************************************************)
NumAlphabet == {"0", "1", ",", "."}

NumStrings(maxLen) == UNION {[1..k -> NumAlphabet] : k \in 0..maxLen}

Suffixes == {<<>>, <<"K">>, <<"m">>, <<"B">>}

Rests == {
    <<" ", "v", "i", "e", "w", "s">>,
    <<"v", "i", "e", "w">>,
    <<" ", " ", "V", "I", "E", "W", "S">>,
    <<" ", "v", "i", "e", "w", "e", "r", "s">>,
    <<>> }

Shape(lead, num, suffix, rest) ==
    [lead |-> lead, num |-> num, suffix |-> suffix, rest |-> rest]

NamedShapes == {
    Shape(<<>>, <<"1", ",", "2", "3", "4">>, <<>>, <<" ", "v", "i", "e", "w", "s">>),
    Shape(<<>>, <<"1", ".", "5">>, <<"M">>, <<" ", "v", "i", "e", "w", "s">>),
    Shape(<<>>, <<"2", "0", "0">>, <<"K">>, <<" ", "v", "i", "e", "w", "s">>),
    Shape(<<>>, <<"3">>, <<>>, <<" ", "V", "I", "E", "W", "S">>),
    Shape(<<>>, <<>>, <<>>, <<"n", "o", " ", "d", "a", "t", "a">>),
    Shape(<<" ">>, <<"2">>, <<>>, <<" ", "v", "i", "e", "w", "s", " ">>) }

Shapes(maxLen) ==
    NamedShapes \cup
    {Shape(<<>>, n, x, r) : n \in NumStrings(maxLen), x \in Suffixes, r \in Rests}

TextOf(sh) == sh.lead \o sh.num \o sh.suffix \o sh.rest

NormInit ==
    /\ npc = "text"
    /\ shape \in Shapes(MaxNumLen)
    /\ viewsText = TextOf(shape)
    /\ views = Num(0)
    /\ PostInit({})

NormNext == NormalizeText

NormSpec == NormInit /\ [][NormNext]_vars


(***************************************************************************)
(* Properties.                                                             *)
(***************************************************************************)
Done(e) == pc[e] = "done"
Success(e) == resp[e].kind = "response" /\ resp[e].status = 200

CrawlFailure == ErrorResp(500, "An error occurred while scraping the playlist")

\* the playlistUrl carries a non-empty `list` token
HasPlaylistId(b) ==
    /\ b.present
    /\ b.absolute
    /\ \E i \in 1..Len(b.query) : b.query[i][1] = "list" /\ b.query[i][2] # ""

\* C1: after validation the dataset is opened at most once, and once the
\* execution has ended dataset.drop() was invoked exactly once for it: never
\* zero times, never twice.
C1_DropExactlyOnce ==
    \A e \in Execs :
        /\ opens[e] <= 1
        /\ drops[e] <= 1
        /\ (Done(e) /\ opens[e] = 1) => drops[e] = 1

\* C2: a missing playlistUrl ends in 400 "Playlist URL is required", one
\* without a non-empty `list` token (strings that are no URL included) in
\* 400 "Invalid playlist URL", and no dataset is opened.
C2_InvalidInput ==
    \A e \in Execs :
        (Done(e) /\ ~HasPlaylistId(body[e])) =>
            /\ opens[e] = 0
            /\ resp[e] = IF body[e].present
                         THEN ErrorResp(400, "Invalid playlist URL")
                         ELSE ErrorResp(400, "Playlist URL is required")

\* C3: when the crawl of the page failed (the engine's retries used up) the
\* caller receives the 500 CrawlFailure response, and a 200 response is
\* returned only if the request handler completed and committed a batch.
C3_CrawlFailureIs500 ==
    \A e \in Execs :
        Done(e) =>
            /\ failed[e] => resp[e] = CrawlFailure
            /\ Success(e) => (rq[e] = "handled" /\ ~failed[e])

\* the batches the page of the execution's own playlistUrl can yield
OwnBatches(e) ==
    {ExtractAll(SubSeq(Items(body[e].page), 1, n)) : n \in 1..Len(Items(body[e].page))}

\* C4: interleaved executions do not interfere: a success response holds the
\* records of the execution's own page, never those of another request, and
\* is never empty because another execution processed its page (an empty
\* list after the crawl of its own page failed is C3's matter, not this one).
C4_NoInterference ==
    \A e \in Execs :
        Success(e) =>
            \/ resp[e].videoList \in OwnBatches(e)
            \/ resp[e].videoList = <<>> /\ failed[e]

\* C5: in a success response graphData and videoList have the same length,
\* graphData[i] is labelled "Video " + (i+1) (1-based position) and carries
\* the views of videoList[i].
C5_GraphMatchesList ==
    \A e \in Execs :
        Success(e) =>
            /\ Len(resp[e].graphData) = Len(resp[e].videoList)
            /\ \A i \in 1..Len(resp[e].videoList) :
                 /\ resp[e].graphData[i].name = "Video " \o ToString(i)
                 /\ resp[e].graphData[i].views = resp[e].videoList[i].views

C5_Witness ==
    \E e \in Execs :
        /\ Success(e)
        /\ Len(resp[e].videoList) = 2
        /\ resp[e].graphData[2].name = "Video 2"
        /\ resp[e].videoList[1].views # resp[e].videoList[2].views

HasDigit(s) == \E i \in 1..Len(s) : IsDigit(s[i])

\* C6: the computed views is always an integer >= 0, never not-a-number and
\* never fractional, and is 0 when the text holds no count at all.
C6_ViewsIsNonNegativeInteger ==
    npc = "done" =>
        /\ IsInteger(views)
        /\ views.m >= 0
        /\ ~HasDigit(viewsText) => views = Num(0)

\* a numeric literal: digits with "," between them, then optionally "." and
\* at least one digit
IsLiteral(num) ==
    LET plain == removeCommas(num)
        p1 == DigitRun(plain, 1)
        p2 == IF p1 + 1 <= Len(plain) /\ plain[p1 + 1] = "."
              THEN DigitRun(plain, p1 + 2) ELSE 0
    IN  /\ num # <<>>
        /\ IsDigit(num[1])
        /\ IsDigit(num[Len(num)])
        /\ \/ p1 = Len(plain)
           \/ p2 >= 1 /\ p1 + 1 + p2 = Len(plain)
        /\ \A i \in 1..Len(num) : num[i] = "." => \A j \in i..Len(num) : num[j] # ","

RECURSIVE Pow10(_)
Pow10(k) == IF k = 0 THEN 1 ELSE 10 * Pow10(k - 1)

Truncated(v) == IF v.e >= 0 THEN v ELSE Num(v.m \div Pow10(0 - v.e))

\* the literal with its separators removed, times the magnitude, truncated
ExpectedViews(num, suffix) ==
    LET plain == removeCommas(num)
        p1 == DigitRun(plain, 1)
        frac == SubSeq(plain, p1 + 2, Len(plain))
        value == Canon(DigitsToNat(SubSeq(plain, 1, p1) \o frac), 0 - Len(frac))
        power == CASE suffix = <<>> -> 0
                   [] toUpperCase(suffix) = <<"K">> -> 3
                   [] toUpperCase(suffix) = <<"M">> -> 6
                   [] toUpperCase(suffix) = <<"B">> -> 9
    IN  Truncated(Times10(value, power))

\* optional whitespace, then view or views in any case
IsViewWord(rest) ==
    toUpperCase(SubSeq(rest, SpaceRun(rest, 1) + 1, Len(rest)))
        \in {<<"V", "I", "E", "W">>, <<"V", "I", "E", "W", "S">>}

\* C7: a text <literal><optional K|M|B><optional whitespace>view|views yields
\* the literal without separators times 1, 1e3, 1e6 or 1e9, truncated to an
\* integer; "no data" and "" yield 0.
C7_ViewsOfCountText ==
    npc = "done" =>
        /\ (shape.lead = <<>> /\ IsLiteral(shape.num) /\ IsViewWord(shape.rest))
              => views = ExpectedViews(shape.num, shape.suffix)
        /\ viewsText \in {<<>>, <<"n", "o", " ", "d", "a", "t", "a">>} => views = Num(0)

\* C8: when Dataset.open fails the caller gets the generic 500 response, and
\* every failing execution ends with one of the three documented error
\* responses, never with an unhandled exception.
C8_DocumentedErrorShapes ==
    \A e \in Execs :
        Done(e) =>
            /\ (HasPlaylistId(body[e]) /\ opens[e] = 0) => resp[e] = CrawlFailure
            /\ resp[e].kind = "response"
            /\ resp[e].status # 200 =>
                 resp[e] \in {ErrorResp(400, "Playlist URL is required"),
                              ErrorResp(400, "Invalid playlist URL"),
                              CrawlFailure}

\* C9: the videoList of a success response is exactly the batch the
\* execution's extractor produced, nothing dropped on the way through
\* pushData, getData and the response.
C9_ResponseIsExtractedBatch ==
    \A e \in Execs :
        (Success(e) /\ extracted[e] # {}) => resp[e].videoList \in extracted[e]

\* one iteration of the scroll loop of crawler c
ScrollIterated(c) ==
    /\ cstate[c] = "scroll"
    /\ cstate'[c] \in {"scroll", "extract"}
    /\ <<cstate[c], oldHeight[c], scrollHeight[c]>> #
           <<cstate'[c], oldHeight'[c], scrollHeight'[c]>>

ScrollExitRule ==
    \A c \in Execs :
        /\ ScrollIterated(c) =>
              /\ oldHeight'[c] = scrollHeight[c]
              /\ cstate'[c] = "extract" <=> scrollHeight'[c] = oldHeight'[c]
        /\ (cstate[c] # "extract" /\ cstate'[c] = "extract") => ScrollIterated(c)

ExtractAfterStable ==
    \A c \in Execs :
        cstate[c] \in {"extract", "push"} =>
            /\ scrollHeight[c] = oldHeight[c]
            /\ ~Endless(body[creq[c]].page)

ScrollingFinitePage(c) ==
    cstate[c] = "scroll" /\ ~Endless(body[creq[c]].page)

\* C10: the scroll loop exits at the first iteration, and only at an
\* iteration, whose re-measured height equals the height recorded at its
\* start; on a page that grows finitely often the loop ends and extraction
\* begins only after it; on a page that grows at every iteration the loop
\* never exits.
C10_ScrollUntilStable ==
    /\ [][ScrollExitRule]_vars
    /\ []ExtractAfterStable
    /\ \A c \in Execs : ScrollingFinitePage(c) ~> cstate[c] # "scroll"

C10_Witness ==
    \E c \in Execs :
        /\ cstate[c] = "extract"
        /\ oldHeight[c] = 2
        /\ scrollHeight[c] = 2

=============================================================================
